---- MODULE Spec2Model ----
(***************************************************************************)
(* Model of the telemetry pipeline of the energy-harvesting dashboard:     *)
(* the ingestion route (src/app/api/sensor/route.ts), the sensor service   *)
(* (src/lib/sensorService.ts) and the mock prediction service              *)
(* (src/lib/mockAIService.ts), run on the single-threaded JavaScript event *)
(* loop: every handler runs to its next await, and the continuation of an  *)
(* await is a job of the FIFO microtask queue.                             *)
(*                                                                         *)
(* Units.  JavaScript numbers are kept as scaled integers: temperature and *)
(* humidity in tenths, wind count in tenths, bus voltage in hundredths of  *)
(* a volt, current in tenths of a milliampere, power in tenths of a        *)
(* milliwatt, efficiencies in thousandths of a percent,                    *)
(* predicted power in hundredths of a milliwatt, time in milliseconds      *)
(* since local midnight of the day the process was started.                *)
(***************************************************************************)
EXTENDS Integers, Sequences, FiniteSets, TLC

VARIABLES
  now,            \* Date.now(), ms since local midnight of day 0
  supabase,       \* the module-level supabase client: TRUE = configured, FALSE = null
  sensorData,     \* SensorDataService.sensorData, most recent first
  deviceStatus,   \* SensorDataService.deviceStatus, a Map deviceId -> DeviceStatus
  dataListeners,  \* SensorDataService.dataListeners, callbacks in subscription order
  predictionCache,\* MockAIService.predictionCache, a Map key -> {data, timestamp}
  microtasks,     \* the event loop's microtask queue: requests whose continuation is ready
  pc,             \* per request: where its handler is suspended
  body,           \* per request: the parsed JSON body
  work,           \* per request: the locals of processSensorData that live across awaits
  response,       \* per request: the HTTP response of the POST handler
  pendingUpserts, \* device_status upserts in flight (fire-and-forget)
  nextId,         \* number of ids generateId() has handed out, plus one
  arrivals,       \* number of ingestion requests received so far
  starts,         \* number of processSensorData calls started so far
  origin,         \* history: origin[id] = start ticket of the call that produced reading id
  appended,       \* history: readings appended since construction or the last clearAllData
  fanouts,        \* history: one record per notifyListeners call
  historicalData, \* MockAIService.historicalData, set by updateHistoricalData
  startedAt,      \* the time the service was constructed
  handles,        \* the cleanup functions addDataListener has returned: handle -> callback
  unsubCalls,     \* history: how often each cleanup function has been called
  aiCalls,        \* history: one record per prediction query (GET or POST /api/sensor/ai);
                  \* of the queries before the latest, the successful current-hour
                  \* queries keep their reply
  streams         \* the connections of GET /api/sensor/stream: per connection its
                  \* listener, whether it is open, whether its heartbeat timer is set

vars == << now, supabase, sensorData, deviceStatus, dataListeners, predictionCache,
           microtasks, pc, body, work, response, pendingUpserts, nextId, arrivals,
           starts, origin, appended, fanouts, historicalData, startedAt, handles, unsubCalls,
           aiCalls, streams >>

(***************************************************************************)
(* Bounds of the model                                                     *)
(***************************************************************************)
MaxRequests == 2      \* request slots, i.e. ingestion requests in flight together
MaxBurst == 202       \* ingestion requests per run of the burst specification
MaxTicks == 1         \* clock advances per run
MaxSubs == 2          \* addDataListener calls per run of the bus specification
MaxPublishes == 1     \* ingestion requests per run of the bus specification
MaxUnsubCalls == 2    \* calls of one cleanup function
MaxValidations == 1   \* ingestion requests per run of the validator specification
MaxAiIngests == 1     \* ingestion requests per run of the prediction specifications
MaxAiCalls == 2       \* prediction queries per run of the prediction specifications
MaxCacheTicks == 2    \* clock advances per run of the prediction cache specification
MaxHistoryIngests == 2  \* ingestion requests per run of the history specification
MaxStreams == 2       \* streaming connections per run of the stream specification
MaxHeartbeats == 1    \* heartbeats per streaming connection

(***************************************************************************)
(* Program constants                                                       *)
(***************************************************************************)
maxDataPoints == 200
DEVICE_ID == "ESP32_001"
CACHE_DURATION == 5 * 60 * 1000
HourMs == 60 * 60 * 1000
TickMs == CACHE_DURATION \div 2

Procs == 1..MaxRequests

Min(a, b) == IF a < b THEN a ELSE b
Max(a, b) == IF a > b THEN a ELSE b

\* Math.round of the rational n/d (d > 0): the nearest integer, halves towards +Infinity.
MathRound(n, d) == (2 * n + d) \div (2 * d)

(***************************************************************************)
(* JSON values of a request body.  A value is a number (v), NaN, undefined *)
(* (an absent key), null, a string that Number() turns into NaN ("str"),   *)
(* or a string that Number() turns into the number v ("numstr").           *)
(***************************************************************************)
Num(v) == [t |-> "num", v |-> v, s |-> ""]
Str(s) == [t |-> "str", v |-> 0, s |-> s]
NumStr(v) == [t |-> "numstr", v |-> v, s |-> ""]
NaNValue == [t |-> "nan", v |-> 0, s |-> ""]
Undefined == [t |-> "undefined", v |-> 0, s |-> ""]
Null == [t |-> "null", v |-> 0, s |-> ""]

requiredFields == << "temperature", "humidity", "bus_voltage", "current", "power",
                     "light_value", "light_status", "wind_count", "hr" >>

\* typeof x !== "number" || isNaN(x)
NotValidNumber(x) == x.t # "num"

\* x < lo || x > hi on a JSON value: the operands are converted with ToNumber, so
\* undefined and non-numeric strings (NaN) compare false, null compares as 0.
IsComparable(x) == x.t \in {"num", "numstr", "null"}
\* a range check that excludes the bounds
OutOfRange_Exclusive(x, lo, hi) == IsComparable(x) /\ (x.v <= lo \/ x.v >= hi)

OutOfRange(x, lo, hi) == IsComparable(x) /\ (x.v < lo \/ x.v > hi)

\* a request body that is not a JSON object (null, a number, a string, an array)
NotAnObject == [nonObject |-> Null]

\* errors.push(msg) under its condition, with the first error ending the validation
PushError_FirstOnly(errors, cond, msg) ==
  IF cond /\ errors = <<>> THEN <<msg>> ELSE errors

\* if (cond) errors.push(msg)
PushError(errors, cond, msg) == IF cond THEN Append(errors, msg) ELSE errors

\* for (const field of requiredFields) if (undefined or null) errors.push(...)
RECURSIVE CheckRequired(_, _, _)
CheckRequired(data, errors, i) ==
  IF i > Len(requiredFields) THEN errors
  ELSE CheckRequired(data,
                     PushError(errors, data[requiredFields[i]].t \in {"undefined", "null"},
                               "Missing required field: " \o requiredFields[i]),
                     i + 1)

\* validateESP32Data: the list of error messages, in the order pushed.
validateESP32Data(data) ==
  IF data = NotAnObject THEN <<"Data must be a valid object">>
  ELSE
  LET e0 == CheckRequired(data, <<>>, 1)
      e1 == PushError(e0, NotValidNumber(data.temperature),
                      "Temperature must be a valid number")
      e2 == PushError(e1, NotValidNumber(data.humidity), "Humidity must be a valid number")
      e3 == PushError(e2, NotValidNumber(data.light_value),
                      "Light value must be a valid number")
      e4 == PushError(e3, data.light_status.t \notin {"str", "numstr"},
                      "Light status must be a string")
      e5 == PushError(e4, NotValidNumber(data.wind_count),
                      "Wind count must be a valid number")
      e6 == PushError(e5, NotValidNumber(data.hr), "Hour must be a valid number")
      e7 == PushError(e6, NotValidNumber(data.bus_voltage),
                      "Bus voltage must be a valid number")
      e8 == PushError(e7, NotValidNumber(data.current), "Current must be a valid number")
      e9 == PushError(e8, NotValidNumber(data.power), "Power must be a valid number")
      r1 == PushError(e9, OutOfRange(data.temperature, -500, 1000),
                      "Temperature out of reasonable range (-50C to 100C)")
      r2 == PushError(r1, OutOfRange(data.humidity, 0, 1000),
                      "Humidity out of reasonable range (0% to 100%)")
      r3 == PushError(r2, OutOfRange(data.light_value, 0, 4095),
                      "Light value out of reasonable range (0 to 4095)")
      r4 == PushError(r3, OutOfRange(data.wind_count, 0, 10000 * 10),
                      "Wind count out of reasonable range (0 to 10000)")
      r5 == PushError(r4, OutOfRange(data.bus_voltage, 0, 2000),
                      "Bus voltage out of reasonable range (0V to 20V)")
  IN  PushError(r5, OutOfRange(data.hr, 0, 23), "Hour out of reasonable range (0 to 23)")

(***************************************************************************)
(* Metrics Calculator (sensorService.ts)                                   *)
(***************************************************************************)
\* voltage in hundredths of a volt; the result in percent
calculateBatteryLevel(voltage) ==
  IF voltage >= 420 THEN 100
  ELSE IF voltage >= 370 THEN MathRound((voltage - 370) * 100, 50)
  ELSE IF voltage >= 300 THEN MathRound((voltage - 300) * 100, 70)
  ELSE 0

\* power in tenths of a milliwatt; the result in thousandths of a percent
calculateSolarEfficiency(power, lightStatus) ==
  IF power > 0 /\ (lightStatus = "bright" \/ lightStatus = "good")
  THEN Min(25 * 1000, power * 10)
  ELSE 0

\* windSpeed in tenths; (windSpeed / 10) * 100 in thousandths of a percent
calculateWindEfficiency(windSpeed) ==
  IF windSpeed > 0 THEN Min(100 * 1000, windSpeed * 1000) ELSE 0

\* Math.round((solarEfficiency + windEfficiency) / 2), in thousandths of a percent
calculateTotalEfficiency(solarEfficiency, windEfficiency) ==
  1000 * MathRound(solarEfficiency + windEfficiency, 2 * 1000)

assessConnectionQuality(power) ==
  IF power > 1000 * 10 THEN "excellent"
  ELSE IF power > 500 * 10 THEN "good"
  ELSE IF power > 100 * 10 THEN "fair"
  ELSE "poor"

(***************************************************************************)
(* Prediction Engine (mockAIService.ts).  Math.random() is a draw r, in    *)
(* thousandths, that the caller chooses; products are kept to three        *)
(* decimals between the factors.                                           *)
(***************************************************************************)
RandomDraws == {0, 500, 999}

getHours(t) == (t \div HourMs) % 24

\* null; in a prediction, nan says that predicted_power is NaN
NoPrediction == [source |-> "none", temperature |-> 0, irradiance |-> 0,
                 humidity |-> 0, hr |-> 0, predicted_power |-> 0, nan |-> FALSE]

\* irradianceMap[lightStatus] || 400, in thousandths of W/m2 (a map value of 0 is falsy)
estimateIrradiance(lightStatus, r) ==
  LET looked == CASE lightStatus = "bright" -> 800 * 1000 + r * 200
                  [] lightStatus = "good" -> 600 * 1000 + r * 150
                  [] lightStatus = "moderate" -> 400 * 1000 + r * 100
                  [] lightStatus = "low" -> 200 * 1000 + r * 100
                  [] OTHER -> 0
  IN  IF looked = 0 THEN 400 * 1000 ELSE looked

\* cos((hour - 12) * PI / 12) * 0.3 + 0.7, in thousandths
timeEfficiency(hour) ==
  LET d == IF hour >= 12 THEN hour - 12 ELSE 12 - hour
  IN  << 1000, 990, 960, 912, 850, 778, 700, 622, 550, 488, 440, 410, 400 >>[d + 1]

\* irradiance * 0.15 * 0.13 * timeEfficiency, in thousandths
calculateBasePower(irradiance, hour) ==
  (((irradiance * 195) \div 10000) * timeEfficiency(hour)) \div 1000

\* 1 + (-0.004) * (temperature - 25), in thousandths
calculateTemperatureEffect(temperature) == 1000 - (4 * (temperature - 250)) \div 10

\* 1 - (humidity / 100) * 0.05, in thousandths
calculateHumidityEffect(humidity) == 1000 - (humidity * 5) \div 100

\* windSpeed in tenths; the result in thousandths
calculateWindEffect(windSpeed) ==
  IF windSpeed < 5 * 10 THEN 1000 ELSE IF windSpeed < 15 * 10 THEN 1020 ELSE 980

RECURSIVE SumEfficiency(_)
SumEfficiency(rows) ==
  IF rows = <<>> THEN 0 ELSE Head(rows).totalEfficiency + SumEfficiency(Tail(rows))

\* history: the value of this.historicalData; the result in thousandths
calculateHistoricalAdjustment(history, hour) ==
  LET similarHourData ==
        SelectSeq(history, LAMBDA d :
          LET dataHour == getHours(d.timestamp)
              diff == IF dataHour >= hour THEN dataHour - hour ELSE hour - dataHour
          IN  diff <= 1)
  IN  IF history = <<>> \/ similarHourData = <<>> THEN 1000
      ELSE Max(700, Min(1300, SumEfficiency(similarHourData)
                                \div (15 * Len(similarHourData))))

\* sd.temperature or sd.humidity is NaN (only a record built from an unchecked
\* request carries the mark): the factors, their product, Math.max(0, NaN) and
\* Math.round(NaN) are then NaN
InputIsNaN(sd) == "nan" \in DOMAIN sd /\ sd.nan

\* r1 is the draw of estimateIrradiance, r2 the draw of the +-15% variation
generatePrediction(sd, hour, history, r1, r2) ==
  LET irradiance == estimateIrradiance(sd.lightStatus, r1)
      basePower == calculateBasePower(irradiance, hour)
      p1 == (basePower * calculateTemperatureEffect(sd.temperature)) \div 1000
      p2 == (p1 * calculateHumidityEffect(sd.humidity)) \div 1000
      p3 == (p2 * calculateWindEffect(sd.windCount)) \div 1000
      p4 == (p3 * calculateHistoricalAdjustment(history, hour)) \div 1000
      variation == 850 + (r2 * 300) \div 1000
      predictedPower == Max(0, (p4 * variation) \div 1000)
  IN  [source |-> "mock-ai-prediction", temperature |-> sd.temperature,
       irradiance |-> irradiance, humidity |-> sd.humidity, hr |-> hour,
       predicted_power |-> MathRound(predictedPower, 10), nan |-> InputIsNaN(sd)]

generateNightPrediction(sd, hour) ==
  [source |-> "mock-ai-night", temperature |-> sd.temperature, irradiance |-> 0,
   humidity |-> sd.humidity, hr |-> hour, predicted_power |-> 0, nan |-> FALSE]

IsNight(hour) == hour >= 18 \/ hour < 6

\* a catch block that throws the error on
PredictionErrorEscapes_Rethrow(fault) == fault

\* catch (error) { console.error(...); return null }: no error leaves the engine
PredictionErrorEscapes(fault) == FALSE

\* getPredictionFromSensor: the prediction it returns (NoPrediction for null), the
\* cache it leaves, and whether it threw; fault = an exception inside its try block
getPredictionFromSensor(sd, t, history, cache, r1, r2, fault) ==
  LET hour == getHours(t)
      prediction == generatePrediction(sd, hour, history, r1, r2)
  IN  IF fault
      THEN [prediction |-> NoPrediction, cache |-> cache,
            thrown |-> PredictionErrorEscapes(fault)]
      ELSE IF IsNight(hour)
      THEN [prediction |-> generateNightPrediction(sd, hour), cache |-> cache,
            thrown |-> FALSE]
      ELSE [prediction |-> prediction,
            cache |-> [k \in DOMAIN cache \cup {hour} |->
                         IF k = hour THEN [data |-> prediction, timestamp |-> t]
                         ELSE cache[k]],
            thrown |-> FALSE]

\* sin(((hour - 6) * PI) / 12) for hour = 6..17, in thousandths
daySine(hour) ==
  << 0, 259, 500, 707, 866, 966, 1000, 966, 866, 707, 500, 259 >>[hour - 6 + 1]

\* generateMockSensorDataForHour: the fields the engine reads; rm is the draw used for
\* temperature, humidity and wind speed, each rounded to one decimal
generateMockSensorDataForHour(hour, t, rm) ==
  LET day == hour >= 6 /\ hour < 18
  IN  [id |-> 0, timestamp |-> t, deviceId |-> DEVICE_ID, hour |-> hour,
       temperature |-> IF day THEN MathRound(200 * 1000 + (hour - 6) * 8 * 1000 + rm * 50, 1000)
                       ELSE MathRound(150 * 1000 + rm * 50, 1000),
       humidity |-> IF day THEN MathRound(500 * 1000 + daySine(hour) * 200 + rm * 100, 1000)
                    ELSE MathRound(700 * 1000 + rm * 200, 1000),
       lightStatus |-> IF ~day THEN "night"
                       ELSE IF hour < 10 THEN "bright"
                       ELSE IF hour < 14 THEN "good" ELSE "moderate",
       windCount |-> IF day THEN MathRound(30 * 1000 + rm * 80, 1000)
                     ELSE MathRound(20 * 1000 + rm * 60, 1000),
       power |-> 0, totalEfficiency |-> 0]

\* getHourPrediction: the prediction (NoPrediction for null) and whether it threw
getHourPrediction(hour, t, history, r1, r2, rm, fault) ==
  IF fault
  THEN [prediction |-> NoPrediction, thrown |-> PredictionErrorEscapes(fault)]
  ELSE [prediction |-> generatePrediction(generateMockSensorDataForHour(hour, t, rm),
                                          hour, history, r1, r2),
        thrown |-> FALSE]

\* getDayForecast: the 24 predictions from the current hour on (<<>> for null)
getDayForecast(t, history, r1, r2, rm, fault) ==
  IF fault
  THEN [forecast |-> <<>>, thrown |-> PredictionErrorEscapes(fault)]
  ELSE [forecast |->
          [i \in 1..24 |->
             LET targetHour == (getHours(t) + (i - 1)) % 24
             IN  generatePrediction(generateMockSensorDataForHour(targetHour, t, rm),
                                    targetHour, history, r1, r2)],
        thrown |-> FALSE]

\* a cache entry that is returned whatever its age
IsFresh_Always(entry, t) == TRUE

\* Date.now() - cached.timestamp < this.CACHE_DURATION
IsFresh(entry, t) == t - entry.timestamp < CACHE_DURATION

\* getCurrentHourPrediction: the cached prediction of the current hour while fresh,
\* else a prediction from the last element of historicalData, else null
getCurrentHourPrediction(t, history, cache, r1, r2, fault) ==
  LET hour == getHours(t)
  IN  IF hour \in DOMAIN cache /\ IsFresh(cache[hour], t)
      THEN [prediction |-> cache[hour].data, cache |-> cache, thrown |-> FALSE,
            fromCache |-> TRUE, age |-> t - cache[hour].timestamp]
      ELSE IF history # <<>>
      THEN LET got == getPredictionFromSensor(history[Len(history)], t, history, cache,
                                              r1, r2, fault)
           IN  [prediction |-> got.prediction, cache |-> got.cache, thrown |-> got.thrown,
                fromCache |-> FALSE, age |-> 0]
      ELSE [prediction |-> NoPrediction, cache |-> cache, thrown |-> FALSE,
            fromCache |-> FALSE, age |-> 0]

\* actualPower in tenths of a milliwatt, predictedPower in hundredths; the result in tenths
calculatePredictionAccuracy_NoClamp(actualPower, predictedPower) ==
  IF predictedPower = 0 THEN (IF actualPower = 0 THEN 100 * 10 ELSE 0)
  ELSE LET actual == actualPower * 10
           err == IF actual >= predictedPower THEN actual - predictedPower
                  ELSE predictedPower - actual
       IN  MathRound(1000 * (predictedPower - err), predictedPower)

calculatePredictionAccuracy(actualPower, predictedPower) ==
  IF predictedPower = 0 THEN (IF actualPower = 0 THEN 100 * 10 ELSE 0)
  ELSE LET actual == actualPower * 10
           err == IF actual >= predictedPower THEN actual - predictedPower
                  ELSE predictedPower - actual
       IN  Max(0, MathRound(1000 * (predictedPower - err), predictedPower))

\* in thousandths of a percent
calculateEfficiencyVsPrediction(actualEfficiency, predictedPower, power) ==
  IF predictedPower = 0 THEN 0 ELSE actualEfficiency - predictedPower

(***************************************************************************)
(* Retention Store, Device Status Tracker, Notification Bus                *)
(* (sensorService.ts)                                                      *)
(***************************************************************************)
\* a store that is never cut back
storeSensorData_NoSlice(store, data) == <<data>> \o store

\* a store that pushes at the tail before it is cut back
storeSensorData_Push(store, data) ==
  LET pushed == Append(store, data)
  IN  IF Len(pushed) > maxDataPoints THEN SubSeq(pushed, 1, maxDataPoints) ELSE pushed

\* this.sensorData.unshift(data), then slice(0, maxDataPoints) when longer
storeSensorData(store, data) ==
  LET unshifted == <<data>> \o store
  IN  IF Len(unshifted) > maxDataPoints
      THEN SubSeq(unshifted, 1, maxDataPoints)
      ELSE unshifted

StatusOf_Offline(data) ==
  [deviceId |-> data.deviceId, isOnline |-> FALSE, lastSeen |-> data.timestamp,
   batteryLevel |-> data.batteryLevel, connectionQuality |-> data.connectionQuality]

StatusOf(data) ==
  [deviceId |-> data.deviceId, isOnline |-> data.isOnline, lastSeen |-> data.timestamp,
   batteryLevel |-> data.batteryLevel, connectionQuality |-> data.connectionQuality]

\* a tracker that creates an entry and never replaces it
updateDeviceStatus_KeepEntry(statusMap, data) ==
  IF data.deviceId \in DOMAIN statusMap THEN statusMap
  ELSE [d \in DOMAIN statusMap \cup {data.deviceId} |->
          IF d = data.deviceId THEN StatusOf(data) ELSE statusMap[d]]

\* this.deviceStatus.set(data.deviceId, status)
updateDeviceStatus(statusMap, data) ==
  [d \in DOMAIN statusMap \cup {data.deviceId} |->
     IF d = data.deviceId THEN StatusOf(data) ELSE statusMap[d]]

\* what the callbacks handed to addDataListener do when they are called
Callbacks == {"plain", "thrower", "selfUnsub", "subscriber"}
Throws(cb) == cb = "thrower"

\* the first index of cb in list, 0 when absent (indexOf + 1)
RECURSIVE IndexOf(_, _, _)
IndexOf(list, cb, k) ==
  IF k > Len(list) THEN 0 ELSE IF list[k] = cb THEN k ELSE IndexOf(list, cb, k + 1)

\* the cleanup function addDataListener(listener) returns
Cleanup(list, listener) ==
  LET index == IndexOf(list, listener, 1)
  IN  IF index > 0
      THEN SubSeq(list, 1, index - 1) \o SubSeq(list, index + 1, Len(list))
      ELSE list

\* listener(data): the listener list after the call of callback cb
CallListener(cb, list) ==
  CASE cb = "selfUnsub" -> Cleanup(list, cb)
    [] cb = "subscriber" -> Append(list, "plain")
    [] OTHER -> list

\* a fan-out without its try/catch
ListenerErrorEscapes_NoCatch(cb) == TRUE

\* try { listener(data) } catch { console.error }: no error of a listener leaves the loop
ListenerErrorEscapes(cb) == FALSE

\* this.dataListeners.forEach(...): indices 1..len of the list as it is when each is
\* reached; len is the length at the start, an index past the end is skipped
RECURSIVE ForEachListener(_, _, _, _)
ForEachListener(list, k, len, invoked) ==
  IF k > len THEN [listeners |-> list, invoked |-> invoked, escaped |-> FALSE]
  ELSE IF k > Len(list) THEN ForEachListener(list, k + 1, len, invoked)
  ELSE LET cb == list[k]
           after == CallListener(cb, list)
       IN  IF Throws(cb) /\ ListenerErrorEscapes(cb)
           THEN [listeners |-> after, invoked |-> Append(invoked, cb), escaped |-> TRUE]
           ELSE ForEachListener(after, k + 1, len, Append(invoked, cb))

notifyListeners(list) == ForEachListener(list, 1, Len(list), <<>>)

(***************************************************************************)
(* Persistence Gateway calls (sensorService.ts)                            *)
(***************************************************************************)
\* how a supabase call ends: a result without error, a result with error, an exception
Outcomes == {"ok", "error", "throw"}

\* a saveToSupabase without its try/catch
saveToSupabase_NoCatch(outcome) == IF outcome = "throw" THEN "rejected" ELSE "resolved"

\* saveToSupabase: every outcome of the insert is logged and the promise resolves
saveToSupabase(outcome) == "resolved"

\* updateDeviceStatusInSupabase: every outcome of the upsert is logged and the
\* promise, which nobody awaits, resolves
updateDeviceStatusInSupabase(outcome) == "resolved"

(***************************************************************************)
(* The state after construction                                            *)
(***************************************************************************)
StartTimes == {18 * HourMs - TickMs}

NoBody == [f \in {requiredFields[i] : i \in 1..Len(requiredFields)} |-> Undefined]
NoReading == [id |-> 0]
NoWork == [aiPrediction |-> NoPrediction, ticket |-> 0, data |-> NoReading,
           saveOutcome |-> "none", saveResult |-> "none"]
NoResponse == [status |-> 0, error |-> <<>>, data |-> NoReading]

InitAt(t) ==
  /\ now = t
  /\ startedAt = now
  /\ supabase \in BOOLEAN
  /\ sensorData = <<>>
  /\ deviceStatus = (DEVICE_ID :> [deviceId |-> DEVICE_ID, isOnline |-> FALSE,
                                   lastSeen |-> now, batteryLevel |-> 0,
                                   connectionQuality |-> "poor"])
  /\ dataListeners = <<>>
  /\ predictionCache = <<>>
  /\ historicalData = <<>>
  /\ microtasks = <<>>
  /\ pc = [p \in Procs |-> "idle"]
  /\ body = [p \in Procs |-> NoBody]
  /\ work = [p \in Procs |-> NoWork]
  /\ response = [p \in Procs |-> NoResponse]
  /\ pendingUpserts = {}
  /\ nextId = 1
  /\ arrivals = 0
  /\ starts = 0
  /\ origin = <<>>
  /\ appended = 0
  /\ fanouts = <<>>
  /\ handles = <<>>
  /\ unsubCalls = <<>>
  /\ aiCalls = <<>>
  /\ streams = <<>>

Init == \E t \in StartTimes : InitAt(t)

(***************************************************************************)
(* Ingestion: POST /api/sensor (route.ts) and processSensorData            *)
(***************************************************************************)
\* a continuation that overtakes the jobs already queued
AwaitResolved_Overtaking(queue, p) == <<p>> \o queue

\* await on a promise that is already resolved: the continuation of request p is
\* queued behind the jobs already in the microtask queue
AwaitResolved(queue, p) == Append(queue, p)

Running(p, at) == microtasks # <<>> /\ Head(microtasks) = p /\ pc[p] = at

\* a handler that validates and goes on regardless
PostRejects_Never(errors) == FALSE

\* if (!validationResult.isValid) return 400
PostRejects(errors) == errors # <<>>

\* the ProcessedSensorData literal handed to getPredictionFromSensor
PredictionInput(raw, t) ==
  [id |-> 0, timestamp |-> t, deviceId |-> DEVICE_ID,
   temperature |-> raw.temperature.v, humidity |-> raw.humidity.v,
   busVoltage |-> raw.bus_voltage.v, current |-> raw.current.v, power |-> raw.power.v,
   lightValue |-> raw.light_value.v, lightStatus |-> raw.light_status.s,
   windCount |-> raw.wind_count.v, hour |-> raw.hr.v]

\* the ProcessedSensorData that processSensorData builds after the prediction
ProcessedData(raw, id, t, aiPrediction) ==
  LET batteryLevel == calculateBatteryLevel(raw.bus_voltage.v)
      solarEfficiency == calculateSolarEfficiency(raw.power.v, raw.light_status.s)
      windEfficiency == calculateWindEfficiency(raw.wind_count.v)
      totalEfficiency == calculateTotalEfficiency(solarEfficiency, windEfficiency)
      attached == aiPrediction.source # "none"
  IN  [id |-> id, timestamp |-> t, deviceId |-> DEVICE_ID,
       temperature |-> raw.temperature.v, humidity |-> raw.humidity.v,
       busVoltage |-> raw.bus_voltage.v, current |-> raw.current.v,
       power |-> raw.power.v, lightValue |-> raw.light_value.v,
       lightStatus |-> raw.light_status.s, windCount |-> raw.wind_count.v,
       hour |-> raw.hr.v, batteryLevel |-> batteryLevel,
       solarEfficiency |-> solarEfficiency, windEfficiency |-> windEfficiency,
       totalEfficiency |-> totalEfficiency, isOnline |-> TRUE,
       connectionQuality |-> assessConnectionQuality(raw.power.v),
       aiPrediction |-> aiPrediction,
       predictionAccuracy |->
         IF attached
         THEN <<calculatePredictionAccuracy(raw.power.v, aiPrediction.predicted_power)>>
         ELSE <<>>,
       efficiencyVsPrediction |->
         IF attached
         THEN <<calculateEfficiencyVsPrediction(totalEfficiency,
                                                aiPrediction.predicted_power, raw.power.v)>>
         ELSE <<>>]

\* The request body has been read (await request.json()): the handler's continuation
\* is queued.
RequestArrives(p, b) ==
  /\ pc[p] = "idle"
  /\ \A q \in 1..(p - 1) : pc[q] # "idle"
  /\ pc' = [pc EXCEPT ![p] = "parsed"]
  /\ body' = [body EXCEPT ![p] = b]
  /\ microtasks' = AwaitResolved(microtasks, p)
  /\ arrivals' = arrivals + 1
  /\ UNCHANGED << now, supabase, sensorData, deviceStatus, dataListeners, predictionCache,
                  work, response, pendingUpserts, nextId, starts, origin, appended,
                  fanouts, historicalData, startedAt, handles, unsubCalls,
                  aiCalls, streams >>

\* POST: validateESP32Data, then either the 400 response or processSensorData up to
\* its first await (the prediction, which may write the prediction cache); an error
\* that leaves the engine is rethrown by processSensorData and answered with 500.
PostHandler(p, r1, r2, fault) ==
  /\ Running(p, "parsed")
  /\ LET errors == validateESP32Data(body[p])
         got == getPredictionFromSensor(PredictionInput(body[p], now), now,
                                        historicalData, predictionCache, r1, r2, fault)
     IN  IF PostRejects(errors)
         THEN /\ response' = [response EXCEPT ![p] =
                                [status |-> 400, error |-> errors, data |-> NoReading]]
              /\ pc' = [pc EXCEPT ![p] = "done"]
              /\ microtasks' = Tail(microtasks)
              /\ UNCHANGED << predictionCache, work, starts >>
         ELSE IF got.thrown
         THEN /\ response' = [response EXCEPT ![p] =
                    [status |-> 500, error |-> <<"Failed to process sensor data">>,
                     data |-> NoReading]]
              /\ pc' = [pc EXCEPT ![p] = "done"]
              /\ microtasks' = Tail(microtasks)
              /\ starts' = starts + 1
              /\ UNCHANGED << predictionCache, work >>
         ELSE /\ predictionCache' = got.cache
              /\ work' = [work EXCEPT ![p] = [NoWork EXCEPT !.aiPrediction = got.prediction,
                                                             !.ticket = starts + 1]]
              /\ starts' = starts + 1
              /\ pc' = [pc EXCEPT ![p] = "awaitPrediction"]
              /\ microtasks' = AwaitResolved(Tail(microtasks), p)
              /\ UNCHANGED response
  /\ UNCHANGED << now, supabase, sensorData, deviceStatus, dataListeners, body,
                  pendingUpserts, nextId, arrivals, origin, appended, fanouts,
                  historicalData, startedAt, handles, unsubCalls,
                  aiCalls, streams >>

\* processSensorData after the prediction: the derived metrics, storeSensorData,
\* updateDeviceStatus (with its unawaited upsert), up to "await updateDeviceStatus".
AfterPrediction(p) ==
  /\ Running(p, "awaitPrediction")
  /\ LET data == ProcessedData(body[p], nextId, now, work[p].aiPrediction)
     IN  /\ sensorData' = storeSensorData(sensorData, data)
         /\ deviceStatus' = updateDeviceStatus(deviceStatus, data)
         /\ pendingUpserts' = IF supabase THEN pendingUpserts \cup {data.id}
                              ELSE pendingUpserts
         /\ work' = [work EXCEPT ![p].data = data]
         /\ origin' = Append(origin, work[p].ticket)
  /\ nextId' = nextId + 1
  /\ appended' = appended + 1
  /\ pc' = [pc EXCEPT ![p] = "awaitStatus"]
  /\ microtasks' = AwaitResolved(Tail(microtasks), p)
  /\ UNCHANGED << now, supabase, dataListeners, predictionCache, body, response,
                  arrivals, starts, fanouts, historicalData, startedAt, handles,
                  unsubCalls,
                  aiCalls, streams >>

\* notifyListeners(processedData) and the return of the reading, or, when an error
\* reaches the catch of processSensorData, the 500 of the POST handler's catch.
Finish(p, failed) ==
  LET fo == notifyListeners(dataListeners)
  IN  IF failed
      THEN /\ response' = [response EXCEPT ![p] =
                 [status |-> 500, error |-> <<"Failed to process sensor data">>,
                  data |-> NoReading]]
           /\ UNCHANGED << dataListeners, fanouts >>
      ELSE /\ dataListeners' = fo.listeners
           /\ fanouts' = Append(fanouts, [id |-> work[p].data.id,
                                          atStart |-> dataListeners,
                                          invoked |-> fo.invoked])
           /\ response' = [response EXCEPT ![p] =
                 IF fo.escaped
                 THEN [status |-> 500, error |-> <<"Failed to process sensor data">>,
                       data |-> NoReading]
                 ELSE [status |-> 200, error |-> <<>>, data |-> work[p].data]]

\* processSensorData after "await updateDeviceStatus": with a client, saveToSupabase
\* is called and awaited (the insert goes out); without, the listeners are notified.
AfterStatus(p) ==
  /\ Running(p, "awaitStatus")
  /\ microtasks' = Tail(microtasks)
  /\ IF supabase
     THEN /\ pc' = [pc EXCEPT ![p] = "awaitSave"]
          /\ UNCHANGED << dataListeners, fanouts, response >>
     ELSE /\ pc' = [pc EXCEPT ![p] = "done"]
          /\ Finish(p, FALSE)
  /\ UNCHANGED << now, supabase, sensorData, deviceStatus, predictionCache, body, work,
                  pendingUpserts, nextId, arrivals, starts, origin, appended,
                  historicalData, startedAt, handles, unsubCalls,
                  aiCalls, streams >>

\* The insert into sensor_data ends; saveToSupabase handles the outcome and its
\* promise settles, which queues the continuation of processSensorData.
InsertCompletes(p, outcome) ==
  /\ pc[p] = "awaitSave"
  /\ pc' = [pc EXCEPT ![p] = "saved"]
  /\ work' = [work EXCEPT ![p].saveOutcome = outcome,
                           ![p].saveResult = saveToSupabase(outcome)]
  /\ microtasks' = AwaitResolved(microtasks, p)
  /\ UNCHANGED << now, supabase, sensorData, deviceStatus, dataListeners, predictionCache,
                  body, response, pendingUpserts, nextId, arrivals, starts, origin,
                  appended, fanouts, historicalData, startedAt, handles, unsubCalls,
                  aiCalls, streams >>

\* processSensorData after "await saveToSupabase".
AfterSave(p) ==
  /\ Running(p, "saved")
  /\ microtasks' = Tail(microtasks)
  /\ pc' = [pc EXCEPT ![p] = "done"]
  /\ Finish(p, work[p].saveResult = "rejected")
  /\ UNCHANGED << now, supabase, sensorData, deviceStatus, predictionCache, body, work,
                  pendingUpserts, nextId, arrivals, starts, origin, appended,
                  historicalData, startedAt, handles, unsubCalls,
                  aiCalls, streams >>

\* The upsert into device_status of reading id ends; nothing waits for it.
UpsertCompletes(id, outcome) ==
  /\ id \in pendingUpserts
  /\ updateDeviceStatusInSupabase(outcome) = "resolved"
  /\ pendingUpserts' = pendingUpserts \ {id}
  /\ UNCHANGED << now, supabase, sensorData, deviceStatus, dataListeners, predictionCache,
                  microtasks, pc, body, work, response, nextId, arrivals, starts, origin,
                  appended, fanouts, historicalData, startedAt, handles, unsubCalls,
                  aiCalls, streams >>

\* The response has been sent; the slot serves the next request.
Close(p) ==
  /\ pc[p] = "done"
  /\ pc' = [pc EXCEPT ![p] = "idle"]
  /\ body' = [body EXCEPT ![p] = NoBody]
  /\ work' = [work EXCEPT ![p] = NoWork]
  /\ response' = [response EXCEPT ![p] = NoResponse]
  /\ UNCHANGED << now, supabase, sensorData, deviceStatus, dataListeners, predictionCache,
                  microtasks, pendingUpserts, nextId, arrivals, starts, origin, appended,
                  fanouts, historicalData, startedAt, handles, unsubCalls,
                  aiCalls, streams >>

(***************************************************************************)
(* Other operations                                                        *)
(***************************************************************************)
\* a clear that also drops the listeners
clearAllData_DropListeners ==
  /\ sensorData' = <<>>
  /\ deviceStatus' = <<>>
  /\ dataListeners' = <<>>
  /\ appended' = 0
  /\ UNCHANGED << now, supabase, predictionCache, microtasks, pc, body, work, response,
                  pendingUpserts, nextId, arrivals, starts, origin, fanouts,
                  historicalData, startedAt, handles, unsubCalls, aiCalls, streams >>

\* the sum of one field over the readings (reduce((a, b) => a + b, 0))
RECURSIVE SumField(_, _)
SumField(rows, field) ==
  IF rows = <<>> THEN 0 ELSE Head(rows)[field] + SumField(Tail(rows), field)

\* averages as integers of the model's units, rounded down
getDataStatistics(store) ==
  IF Len(store) = 0
  THEN [totalReadings |-> 0, avgTemperature |-> 0, avgPower |-> 0, avgEfficiency |-> 0]
  ELSE [totalReadings |-> Len(store),
        avgTemperature |-> SumField(store, "temperature") \div Len(store),
        avgPower |-> SumField(store, "power") \div Len(store),
        avgEfficiency |-> SumField(store, "totalEfficiency") \div Len(store)]

clearAllData ==
  /\ sensorData' = <<>>
  /\ deviceStatus' = <<>>
  /\ appended' = 0
  /\ UNCHANGED << now, supabase, dataListeners, predictionCache, microtasks, pc, body,
                  work, response, pendingUpserts, nextId, arrivals, starts, origin,
                  fanouts, historicalData, startedAt, handles, unsubCalls,
                  aiCalls, streams >>

addDataListener(listener) ==
  /\ dataListeners' = Append(dataListeners, listener)
  /\ handles' = Append(handles, listener)
  /\ unsubCalls' = Append(unsubCalls, 0)
  /\ UNCHANGED << now, supabase, sensorData, deviceStatus, predictionCache, microtasks,
                  pc, body, work, response, pendingUpserts, nextId, arrivals, starts,
                  origin, appended, fanouts, historicalData, startedAt,
                  aiCalls, streams >>

\* a call of the cleanup function that the h-th addDataListener call returned
Unsubscribe(h) ==
  /\ h \in 1..Len(handles)
  /\ unsubCalls[h] < MaxUnsubCalls
  /\ dataListeners' = Cleanup(dataListeners, handles[h])
  /\ unsubCalls' = [unsubCalls EXCEPT ![h] = @ + 1]
  /\ UNCHANGED << now, supabase, sensorData, deviceStatus, predictionCache, microtasks,
                  pc, body, work, response, pendingUpserts, nextId, arrivals, starts,
                  origin, appended, fanouts, historicalData, startedAt, handles,
                  aiCalls, streams >>

\* this.sensorData.slice(0, limit)
getLatestSensorData(store, limit) == SubSeq(store, 1, Min(limit, Len(store)))

\* the sendData closures of the streaming connections, one per connection
StreamListeners == <<"stream1", "stream2", "stream3", "stream4">>

\* GET /api/sensor/stream: start(controller) sends the latest reading when there is
\* one, registers sendData and sets the heartbeat interval
StreamOpens ==
  /\ Len(streams) < MaxStreams
  /\ microtasks = <<>>
  /\ LET sendData == StreamListeners[Len(streams) + 1]
     IN  /\ dataListeners' = Append(dataListeners, sendData)
         /\ handles' = Append(handles, sendData)
         /\ unsubCalls' = Append(unsubCalls, 0)
         /\ streams' = Append(streams,
              [listener |-> sendData, open |-> TRUE, timer |-> TRUE,
               initial |-> getLatestSensorData(sensorData, 1) # <<>>,
               heartbeatCount |-> 0, closedAfter |-> 0])
  /\ UNCHANGED << now, supabase, sensorData, deviceStatus, predictionCache, microtasks,
                  pc, body, work, response, pendingUpserts, nextId, arrivals, starts,
                  origin, appended, fanouts, historicalData, startedAt, aiCalls >>

\* a handler of the abort event that forgets to call the cleanup function
AbortCleanup_Skip(list, listener) == list

\* if (dataListenerCleanup) dataListenerCleanup()
AbortCleanup(list, listener) == Cleanup(list, listener)

\* the abort event of the request of connection k: the interval is cleared, the
\* listener removed, the controller closed
StreamAborts(k) ==
  /\ k \in 1..Len(streams)
  /\ streams[k].open
  /\ microtasks = <<>>
  /\ dataListeners' = AbortCleanup(dataListeners, streams[k].listener)
  /\ streams' = [streams EXCEPT ![k].open = FALSE, ![k].timer = FALSE,
                                ![k].closedAfter = Len(fanouts)]
  /\ UNCHANGED << now, supabase, sensorData, deviceStatus, predictionCache, microtasks,
                  pc, body, work, response, pendingUpserts, nextId, arrivals, starts,
                  origin, appended, fanouts, historicalData, startedAt, handles,
                  unsubCalls, aiCalls >>

\* the interval of connection k fires: sendHeartbeat
Heartbeat(k) ==
  /\ k \in 1..Len(streams)
  /\ streams[k].timer
  /\ streams[k].heartbeatCount < MaxHeartbeats
  /\ microtasks = <<>>
  /\ streams' = [streams EXCEPT ![k].heartbeatCount = @ + 1]
  /\ UNCHANGED << now, supabase, sensorData, deviceStatus, dataListeners,
                  predictionCache, microtasks, pc, body, work, response, pendingUpserts,
                  nextId, arrivals, starts, origin, appended, fanouts, historicalData,
                  startedAt, handles, unsubCalls, aiCalls >>


\* the record of one prediction query
AiReply(type, status, error, predictions, fromCache, age) ==
  [type |-> type, at |-> now, status |-> status, error |-> error,
   predictions |-> predictions, fromCache |-> fromCache, age |-> age]

Forgotten == [type |-> "forgotten", at |-> 0, status |-> 0, error |-> "",
              predictions |-> <<>>, fromCache |-> FALSE, age |-> 0]

\* the history of queries when a further query is answered
Remember(calls) ==
  [i \in 1..Len(calls) |-> IF calls[i].type = "current" /\ calls[i].status = 200
                            THEN calls[i] ELSE Forgotten]

\* the 500 of a handler: of its catch block when the engine threw, else its last
\* statement
NoPredictionReply(type, thrown) ==
  AiReply(type, 500, IF thrown THEN "Internal server error"
                     ELSE "Failed to generate prediction", <<>>, FALSE, 0)

\* a response with the prediction when there is one, else a 500
PredictionReply(type, got, fromCache, age) ==
  IF got.thrown \/ got.prediction = NoPrediction
  THEN NoPredictionReply(type, got.thrown)
  ELSE AiReply(type, 200, "", <<got.prediction>>, fromCache, age)

\* A query handler starts as a task of its own, when the queued continuations have
\* run; its state changes happen in one stretch between two of its awaits.
\* GET /api/sensor/ai?type=...&hour=...: updateHistoricalData with the latest 100
\* readings when there are any, then the query named by type.  hour is the JSON
\* value of the hour parameter after parseInt (Undefined when absent, NaN when
\* not a number).
AiGet(type, hour, r1, r2, rm, fault) ==
  /\ Len(aiCalls) < MaxAiCalls
  /\ microtasks = <<>>
  /\ LET currentData == getLatestSensorData(sensorData, 100)
         history == IF currentData # <<>> THEN currentData ELSE historicalData
         current == getCurrentHourPrediction(now, history, predictionCache, r1, r2, fault)
         day == getDayForecast(now, history, r1, r2, rm, fault)
         single == getHourPrediction(hour.v, now, history, r1, r2, rm, fault)
     IN  /\ historicalData' = history
         /\ predictionCache' = IF type = "current" THEN current.cache ELSE predictionCache
         /\ aiCalls' = Append(Remember(aiCalls),
              CASE type = "current" ->
                     PredictionReply(type, current, current.fromCache, current.age)
                [] type = "day" ->
                     IF day.thrown \/ day.forecast = <<>>
                     THEN NoPredictionReply(type, day.thrown)
                     ELSE AiReply(type, 200, "", day.forecast, FALSE, 0)
                [] type = "hour" ->
                     IF hour.t = "num" /\ hour.v >= 0 /\ hour.v <= 23
                     THEN PredictionReply(type, single, FALSE, 0)
                     ELSE NoPredictionReply(type, FALSE)
                [] OTHER -> AiReply(type, 400, "Invalid type parameter", <<>>, FALSE, 0))
  /\ UNCHANGED << now, supabase, sensorData, deviceStatus, dataListeners, microtasks, pc,
                  body, work, response, pendingUpserts, nextId, arrivals, starts, origin,
                  appended, fanouts, startedAt, handles, unsubCalls, streams >>

\* ToNumber of a JSON value is NaN
ToNumberIsNaN(x) == x.t \in {"str", "nan", "undefined"}

\* POST /api/sensor/ai: 400 when temperature, humidity or lightStatus is undefined,
\* else getPredictionFromSensor on a record built from the unchecked body.  The
\* record has no windCount: undefined < 5 and undefined < 15 are both false, as
\* for a wind of 15 or more.
AiPost(b, r1, r2, fault) ==
  /\ Len(aiCalls) < MaxAiCalls
  /\ microtasks = <<>>
  /\ LET sd == [id |-> 0, timestamp |-> now, deviceId |-> DEVICE_ID,
                temperature |-> b.temperature.v, humidity |-> b.humidity.v,
                lightStatus |-> b.lightStatus.s, windCount |-> 15 * 10,
                power |-> 0, totalEfficiency |-> 0,
                nan |-> ToNumberIsNaN(b.temperature) \/ ToNumberIsNaN(b.humidity)]
         got == getPredictionFromSensor(sd, now, historicalData, predictionCache,
                                        r1, r2, fault)
         missing == \E f \in {"temperature", "humidity", "lightStatus"} :
                      b[f].t = "undefined"
     IN  /\ predictionCache' = IF missing THEN predictionCache ELSE got.cache
         /\ aiCalls' = Append(Remember(aiCalls),
                              IF missing
                              THEN AiReply("post", 400, "Missing required fields",
                                           <<>>, FALSE, 0)
                              ELSE PredictionReply("post", got, FALSE, 0))
  /\ UNCHANGED << now, supabase, sensorData, deviceStatus, dataListeners, microtasks, pc,
                  body, work, response, pendingUpserts, nextId, arrivals, starts, origin,
                  appended, fanouts, historicalData, startedAt, handles, unsubCalls, streams >>

\* The clock advances between tasks: queued continuations run to completion first.
Advance(ticks) ==
  /\ now < startedAt + ticks * TickMs
  /\ microtasks = <<>>
  /\ now' = now + TickMs
  /\ UNCHANGED << supabase, sensorData, deviceStatus, dataListeners, predictionCache,
                  microtasks, pc, body, work, response, pendingUpserts, nextId, arrivals,
                  starts, origin, appended, fanouts, historicalData, startedAt, handles,
                  unsubCalls,
                  aiCalls, streams >>

Tick == Advance(MaxTicks)

(***************************************************************************)
(* Request bodies                                                          *)
(***************************************************************************)
\* the reading of the device's test script
DeviceBody ==
  [temperature |-> Num(295), humidity |-> Num(793), bus_voltage |-> Num(525),
   current |-> Num(-162), power |-> Num(960), light_value |-> Num(820),
   light_status |-> Str("Light available, good for solar energy"),
   wind_count |-> Num(120), hr |-> Num(15)]

BrightBody ==
  [DeviceBody EXCEPT !.power = Num(12000), !.light_status = Str("bright"),
                     !.bus_voltage = Num(400), !.wind_count = Num(0), !.hr = Num(10)]

OutOfRangeBody == [DeviceBody EXCEPT !.hr = Num(24), !.humidity = Num(1500)]

MissingFieldBody == [DeviceBody EXCEPT !.temperature = Undefined]

Bodies == {BrightBody, OutOfRangeBody}

\* the six fields validateESP32Data range-checks, with the bounds it compares against
RangeFields == {"temperature", "humidity", "light_value", "wind_count", "bus_voltage", "hr"}
RangeOf ==
  [temperature |-> <<-500, 1000>>, humidity |-> <<0, 1000>>, light_value |-> <<0, 4095>>,
   wind_count |-> <<0, 10000 * 10>>, bus_voltage |-> <<0, 2000>>, hr |-> <<0, 23>>]

AllLowBody == [f \in DOMAIN DeviceBody |->
                 IF f \in RangeFields THEN Num(RangeOf[f][1]) ELSE DeviceBody[f]]
AllHighBody == [f \in DOMAIN DeviceBody |->
                  IF f \in RangeFields THEN Num(RangeOf[f][2]) ELSE DeviceBody[f]]

\* every combination of the six range-checked fields being above its range or not
ViolationBodies ==
  { [f \in DOMAIN DeviceBody |->
       IF f \in S THEN Num(RangeOf[f][2] + 1) ELSE DeviceBody[f]] : S \in SUBSET RangeFields }

\* one range-checked field just below its range
BelowBodies == { [DeviceBody EXCEPT ![f] = Num(RangeOf[f][1] - 1)] : f \in RangeFields }

\* one field of any JSON kind that is not a number (a numeric string in or out of range)
KindBodies ==
  { [DeviceBody EXCEPT ![f] = x] :
      f \in DOMAIN DeviceBody,
      x \in {NaNValue, Undefined, Null, Str("abc"), NumStr(5), NumStr(100001), Num(1)} }

\* readings at the breakpoints of the battery mapping (3.0 V, 3.7 V, 4.2 V, and one
\* step below 3.7 V), and the device's reading with a power of 98.0 mW
LevelBodies ==
  { [DeviceBody EXCEPT !.bus_voltage = Num(v)] : v \in {300, 369, 370, 420} }
    \cup { [DeviceBody EXCEPT !.power = Num(980)], BrightBody }

\* readings that produce no power, and a reading of 6.0 mW for which the engine
\* predicts 6.00 mW at 17:57 with the middle random draws
AccuracyBodies ==
  { [DeviceBody EXCEPT !.power = Num(0)],
    [DeviceBody EXCEPT !.power = Num(60), !.humidity = Num(240)] }

ValidatorBodies ==
  ViolationBodies \cup BelowBodies \cup KindBodies \cup LevelBodies \cup AccuracyBodies
    \cup {AllLowBody, AllHighBody, OutOfRangeBody, MissingFieldBody, NotAnObject}

(***************************************************************************)
(* Specifications                                                          *)
(***************************************************************************)
\* The ingestion pipeline: overlapping requests, the persistence gateway, one
\* well-behaved listener, the clock.
Next ==
  \/ \E p \in Procs, b \in Bodies : RequestArrives(p, b)
  \/ \E p \in Procs : PostHandler(p, 500, 500, FALSE)
  \/ \E p \in Procs : AfterPrediction(p)
  \/ \E p \in Procs : AfterStatus(p)
  \/ \E p \in Procs, o \in Outcomes : InsertCompletes(p, o)
  \/ \E p \in Procs : AfterSave(p)
  \/ \E id \in pendingUpserts, o \in Outcomes : UpsertCompletes(id, o)
  \/ Len(handles) < 1 /\ addDataListener("plain")
  \/ Tick

Spec == Init /\ [][Next]_vars

\* The retention store under a burst: one request after the other, more than
\* maxDataPoints of them, and clearAllData at any moment; no persistence client.
InitStore == Init /\ ~supabase

NextStore ==
  \/ arrivals < MaxBurst /\ RequestArrives(1, DeviceBody)
  \/ PostHandler(1, 500, 500, FALSE)
  \/ AfterPrediction(1)
  \/ AfterStatus(1)
  \/ Close(1)
  \/ clearAllData

SpecStore == InitStore /\ [][NextStore]_vars

\* The notification bus: callbacks of every kind subscribe and unsubscribe around
\* and during the fan-out of readings that are ingested one after the other; no
\* persistence client.
NextBus ==
  \/ arrivals < MaxPublishes /\ RequestArrives(1, DeviceBody)
  \/ PostHandler(1, 500, 500, FALSE)
  \/ AfterPrediction(1)
  \/ AfterStatus(1)
  \/ Close(1)
  \/ \E cb \in Callbacks : Len(handles) < MaxSubs /\ addDataListener(cb)
  \/ \E h \in 1..Len(handles) : Unsubscribe(h)

SpecBus == InitStore /\ [][NextBus]_vars

\* The validator: request bodies of every kind, one after the other; no persistence
\* client.
NextValidate ==
  \/ \E b \in ValidatorBodies : arrivals < MaxValidations /\ RequestArrives(1, b)
  \/ PostHandler(1, 500, 500, FALSE)
  \/ AfterPrediction(1)
  \/ AfterStatus(1)
  \/ Close(1)
  \/ Tick

SpecValidate == InitStore /\ [][NextValidate]_vars

\* The prediction engine: ingestions and prediction queries of every kind late in
\* the afternoon, the clock running into the night, exceptions inside the engine, a
\* listener that subscribed before the traffic; no persistence client.
AiBodies == {DeviceBody, BrightBody}

AiQueries ==
  { [type |-> "current", hour |-> Undefined], [type |-> "day", hour |-> Undefined],
    [type |-> "other", hour |-> Undefined] }
  \cup { [type |-> "hour", hour |-> h] : h \in {Undefined, Num(12), Num(22), Num(24)} }

AiPostBodies ==
  { [temperature |-> Num(250), humidity |-> Num(500), lightStatus |-> Str("bright")],
    [temperature |-> Str("hot"), humidity |-> Num(500), lightStatus |-> Str("bright")],
    [temperature |-> Num(250), humidity |-> Undefined, lightStatus |-> Str("bright")] }

NextAI ==
  \/ \E p \in Procs : arrivals < MaxAiIngests /\ RequestArrives(p, BrightBody)
  \/ \E p \in Procs, fault \in BOOLEAN : PostHandler(p, 500, 500, fault)
  \/ \E p \in Procs : AfterPrediction(p)
  \/ \E p \in Procs : AfterStatus(p)
  \/ \E q \in AiQueries, fault \in BOOLEAN : AiGet(q.type, q.hour, 500, 500, 500, fault)
  \/ \E b \in AiPostBodies, fault \in BOOLEAN : AiPost(b, 500, 500, fault)
  \/ arrivals = 0 /\ aiCalls = <<>> /\ Len(handles) < 1 /\ addDataListener("plain")
  \/ Tick

SpecAI == InitStore /\ [][NextAI]_vars

\* The prediction cache: ingestions, current-hour queries and posted queries in the
\* morning, the clock running past the cache's time to live within the hour; no
\* persistence client.
CacheStart == 10 * HourMs

InitCache == InitAt(CacheStart) /\ ~supabase

NextCache ==
  \/ \E p \in Procs, b \in AiBodies : arrivals < MaxAiIngests /\ RequestArrives(p, b)
  \/ \E p \in Procs : PostHandler(p, 500, 500, FALSE)
  \/ \E p \in Procs : AfterPrediction(p)
  \/ \E p \in Procs : AfterStatus(p)
  \/ \E r2 \in {0, 999} : AiGet("current", Undefined, 500, r2, 500, FALSE)
  \/ \E b \in AiPostBodies : AiPost(b, 500, 500, FALSE)
  \/ Advance(MaxCacheTicks)

SpecCache == InitCache /\ [][NextCache]_vars

\* The streaming connections: connections opened and aborted around and during
\* ingestions that run one after the other, with and without a persistence client.
NextStream ==
  \/ arrivals < MaxHistoryIngests /\ RequestArrives(1, DeviceBody)
  \/ PostHandler(1, 500, 500, FALSE)
  \/ AfterPrediction(1)
  \/ AfterStatus(1)
  \/ \E o \in Outcomes : InsertCompletes(1, o)
  \/ AfterSave(1)
  \/ Close(1)
  \/ StreamOpens
  \/ \E k \in 1..Len(streams) : StreamAborts(k)
  \/ \E k \in 1..Len(streams) : Heartbeat(k)

SpecStream == Init /\ [][NextStream]_vars

\* The clear route: ingestions one after the other, a listener, and clearAllData at
\* any point; no persistence client.
NextClear ==
  \/ arrivals < MaxHistoryIngests /\ RequestArrives(1, DeviceBody)
  \/ PostHandler(1, 500, 500, FALSE)
  \/ AfterPrediction(1)
  \/ AfterStatus(1)
  \/ Close(1)
  \/ Len(handles) < MaxSubs /\ addDataListener("plain")
  \/ clearAllData
  \/ Tick

SpecClear == InitStore /\ [][NextClear]_vars

\* The historical context of the engine: ingestions one after the other in the
\* morning, current-hour queries, the clear route, the clock running past the
\* cache's time to live; no persistence client.
NextHistory ==
  \/ \E b \in AiBodies : arrivals < MaxHistoryIngests /\ RequestArrives(1, b)
  \/ PostHandler(1, 500, 500, FALSE)
  \/ AfterPrediction(1)
  \/ AfterStatus(1)
  \/ Close(1)
  \/ AiGet("current", Undefined, 500, 500, 500, FALSE)
  \/ clearAllData
  \/ Advance(MaxCacheTicks)

SpecHistory == InitCache /\ [][NextHistory]_vars

(***************************************************************************)
(* Properties                                                              *)
(***************************************************************************)
Range(seq) == {seq[i] : i \in 1..Len(seq)}

\* C1: in every reachable state, after any sequence of accepted ingestions and
\* clearAllData calls, the retention store holds at most maxDataPoints (200) readings.
C1_StoreWithinCapacity == Len(sensorData) <= maxDataPoints

\* more readings than the capacity have been appended and the store is full
C1_Witness == appended > maxDataPoints /\ Len(sensorData) = maxDataPoints

\* C2: after n appends (since construction or the last clear) the store holds the
\* min(n, capacity) most recently appended readings, newest at the head, in
\* most-recent-first order (ids are handed out in append order), each id once.
C2_NewestKeptInOrder ==
  /\ Len(sensorData) = Min(appended, maxDataPoints)
  /\ \A i \in 1..Len(sensorData) : sensorData[i].id = nextId - i

\* capacity + 2 readings have been appended
C2_Witness == appended = maxDataPoints + 2 /\ Len(sensorData) = maxDataPoints

\* C3: readings are in the store in the order in which their processSensorData calls
\* started: a reading nearer the head comes from a call that started later.
C3_AppendedInArrivalOrder ==
  \A i, j \in 1..Len(sensorData) :
    i < j => origin[sensorData[i].id] > origin[sensorData[j].id]

\* two calls that overlapped (both started before either appended) have both appended
C3_Witness ==
  /\ pc[1] = "awaitStatus" /\ pc[2] = "awaitStatus"
  /\ Len(sensorData) = 2

\* C4: the step of the POST handler on a body that fails validation leaves the store,
\* the status tracker, the prediction cache and the listener list unchanged, notifies
\* no listener, issues no persistence write, and responds 400 with the violations.
C4_InvalidChangesNothing ==
  [][\A p \in Procs :
       (Running(p, "parsed") /\ pc'[p] # "parsed" /\ validateESP32Data(body[p]) # <<>>)
       => /\ UNCHANGED << sensorData, deviceStatus, predictionCache, dataListeners,
                          fanouts, pendingUpserts, nextId >>
          /\ pc'[p] = "done"
          /\ response'[p].status = 400
          /\ response'[p].error = validateESP32Data(body[p])
          /\ Len(response'[p].error) >= 1]_vars

\* a request has been rejected while a reading and a cached prediction are held
C4_Witness ==
  \E p \in Procs :
    /\ pc[p] = "done" /\ response[p].status = 400 /\ Len(response[p].error) = 2
    /\ Len(sensorData) = 1
    /\ DOMAIN predictionCache # {}

\* C5: every fan-out invokes every callback that is registered when it starts,
\* exactly once and in subscription order, whatever the callbacks do meanwhile.
C5_EveryRegisteredInvokedOnce ==
  \A i \in 1..Len(fanouts) : fanouts[i].invoked = fanouts[i].atStart

\* C6: a callback that throws does not end the fan-out (when no callback unsubscribes
\* during it, every callback registered at its start is invoked, in order) and does
\* not fail the ingestion: the request ends with status 200, returns the reading
\* that was fanned out, and that reading is in the store.
C6_ThrowingListenerIsolated ==
  /\ \A i \in 1..Len(fanouts) :
       ("thrower" \in Range(fanouts[i].atStart)
          /\ "selfUnsub" \notin Range(fanouts[i].atStart))
       => fanouts[i].invoked = fanouts[i].atStart
  /\ \A p \in Procs :
       (pc[p] = "done" /\ validateESP32Data(body[p]) = <<>>)
       => /\ response[p].status = 200
          /\ response[p].data \in Range(sensorData)
          /\ \E i \in 1..Len(fanouts) : fanouts[i].id = response[p].data.id

\* a thrower was invoked, the callback subscribed after it too, and the request
\* has returned the stored reading
C6_Witness ==
  \E p \in Procs, i \in 1..Len(fanouts) :
    /\ fanouts[i].atStart = <<"thrower", "plain">>
    /\ fanouts[i].invoked = <<"thrower", "plain">>
    /\ pc[p] = "done" /\ response[p].status = 200
    /\ response[p].data.id = fanouts[i].id
    /\ response[p].data \in Range(sensorData)

\* a step that is a call of the cleanup function h
UnsubscribeStep(h) == unsubCalls' = [unsubCalls EXCEPT ![h] = @ + 1]

\* C7: a second or later call of a cleanup function leaves the listener list as
\* the first call left it, for every history of subscriptions (the same callback
\* subscribed more than once included).
C7_RepeatedCallChangesNothing ==
  [][\A h \in 1..Len(handles) :
       (UnsubscribeStep(h) /\ unsubCalls[h] >= 1) => dataListeners' = dataListeners]_vars

\* C8: the fan-out of a reading does not wait for its persistence write: whenever
\* the insert of a reading is in flight, the reading has been fanned out.
C8_FanOutDoesNotWaitForWrite ==
  \A p \in Procs :
    pc[p] = "awaitSave" => \E i \in 1..Len(fanouts) : fanouts[i].id = work[p].data.id

\* C9: whatever the persistence gateway does (no client, an error result, an
\* exception), an accepted request ends with status 200 and the processed reading,
\* the reading is in the store, the device is tracked as online and seen no earlier
\* than the reading, and the listeners registered at the fan-out were notified.
C9_PersistenceFailureNotSurfaced ==
  \A p \in Procs :
    (pc[p] = "done" /\ validateESP32Data(body[p]) = <<>>)
    => /\ response[p].status = 200
       /\ response[p].data = work[p].data
       /\ work[p].data \in Range(sensorData)
       /\ DEVICE_ID \in DOMAIN deviceStatus
       /\ deviceStatus[DEVICE_ID].isOnline
       /\ deviceStatus[DEVICE_ID].lastSeen >= work[p].data.timestamp
       /\ \E i \in 1..Len(fanouts) :
            /\ fanouts[i].id = work[p].data.id
            /\ fanouts[i].invoked = fanouts[i].atStart

\* a request whose insert threw has returned its reading to a notified listener
C9_Witness ==
  \E p \in Procs, i \in 1..Len(fanouts) :
    /\ pc[p] = "done" /\ work[p].saveOutcome = "throw"
    /\ response[p].status = 200
    /\ fanouts[i].id = work[p].data.id
    /\ fanouts[i].invoked = <<"plain">>

\* C10: the step that accepts a reading leaves the tracker with exactly one entry for
\* the reading's device, made of online = true and the reading's timestamp, battery
\* level and connection quality.
C10_StatusOverwritten ==
  [][\A p \in Procs :
       (Running(p, "awaitPrediction") /\ pc'[p] = "awaitStatus")
       => LET data == Head(sensorData')
          IN  /\ data.id = nextId
              /\ DOMAIN deviceStatus' = {data.deviceId}
              /\ deviceStatus'[data.deviceId] =
                   [deviceId |-> data.deviceId, isOnline |-> TRUE,
                    lastSeen |-> data.timestamp, batteryLevel |-> data.batteryLevel,
                    connectionQuality |-> data.connectionQuality]
              /\ data.batteryLevel = calculateBatteryLevel(body[p].bus_voltage.v)
              /\ data.timestamp = now]_vars

\* the entry made at construction (offline, battery 0, poor) has been replaced by
\* the entry of a reading taken later with battery 60 and an excellent connection
C10_Witness ==
  /\ Len(sensorData) >= 1
  /\ deviceStatus[DEVICE_ID] = [deviceId |-> DEVICE_ID, isOnline |-> TRUE,
                                lastSeen |-> startedAt + TickMs, batteryLevel |-> 60,
                                connectionQuality |-> "excellent"]

\* C11: a DeviceStatus entry is never deleted: every step of every operation keeps
\* an entry for each device that had one.
C11_StatusEntryNeverDeleted ==
  [][DOMAIN deviceStatus \subseteq DOMAIN deviceStatus']_vars

\* the message validateESP32Data pushes for a range violation of each field
RangeMessage ==
  [temperature |-> "Temperature out of reasonable range (-50C to 100C)",
   humidity |-> "Humidity out of reasonable range (0% to 100%)",
   light_value |-> "Light value out of reasonable range (0 to 4095)",
   wind_count |-> "Wind count out of reasonable range (0 to 10000)",
   bus_voltage |-> "Bus voltage out of reasonable range (0V to 20V)",
   hr |-> "Hour out of reasonable range (0 to 23)"]

Occurrences(list, x) == Len(SelectSeq(list, LAMBDA y : y = x))

\* a record with every field present, the eight numeric fields numbers, the light
\* status a string
WellFormed(b) ==
  /\ b # NotAnObject
  /\ \A f \in DOMAIN b \ {"light_status"} : b[f].t = "num"
  /\ b.light_status.t \in {"str", "numstr"}

Validated(p) == pc[p] \notin {"idle", "parsed"}

\* C12: for a well-formed record the errors of the 400 response hold, for each of the
\* six range-checked fields, its range message once if the value is outside the
\* range and not at all otherwise; nothing else is reported.
C12_AllViolationsListed ==
  \A p \in Procs :
    (pc[p] = "done" /\ WellFormed(body[p]))
    => /\ \A f \in RangeFields :
            Occurrences(response[p].error, RangeMessage[f]) =
              IF body[p][f].v < RangeOf[f][1] \/ body[p][f].v > RangeOf[f][2]
              THEN 1 ELSE 0
       /\ Range(response[p].error) \subseteq {RangeMessage[f] : f \in RangeFields}
       /\ response[p].status = IF response[p].error = <<>> THEN 200 ELSE 400

\* the reading with hr = 24 and humidity = 150 has been rejected with both messages
C12_Witness ==
  /\ pc[1] = "done" /\ body[1] = OutOfRangeBody
  /\ response[1].status = 400
  /\ response[1].error = <<RangeMessage.humidity, RangeMessage.hr>>

\* the valid readings: nine fields present, eight numbers that are not NaN, a string
\* light status, and the six ranges, bounds included
IsValidReading(b) ==
  /\ WellFormed(b)
  /\ \A f \in RangeFields : b[f].v >= RangeOf[f][1] /\ b[f].v <= RangeOf[f][2]

Predictions ==
  ({ sensorData[i].aiPrediction : i \in 1..Len(sensorData) } \ {NoPrediction})
    \cup UNION { Range(aiCalls[i].predictions) : i \in 1..Len(aiCalls) }

\* C14: every stored reading has its three efficiencies within [0, 100], and every
\* prediction, attached to a reading or returned to a query, has a predicted power
\* that is a number >= 0.
C14_EfficiencyAndPowerInRange ==
  /\ \A i \in 1..Len(sensorData) :
       /\ sensorData[i].solarEfficiency >= 0 /\ sensorData[i].solarEfficiency <= 100 * 1000
       /\ sensorData[i].windEfficiency >= 0 /\ sensorData[i].windEfficiency <= 100 * 1000
       /\ sensorData[i].totalEfficiency >= 0 /\ sensorData[i].totalEfficiency <= 100 * 1000
  /\ \A pr \in Predictions : ~pr.nan /\ pr.predicted_power >= 0

\* C15: every prediction for a night hour (0..5, 18..23), whether attached to a
\* reading, returned for a specific hour or part of the day forecast, has predicted
\* power 0 and the night source tag.
C15_NightPredictionIsZero ==
  \A pr \in Predictions :
    IsNight(pr.hr) => pr.predicted_power = 0 /\ pr.source = "mock-ai-night"

\* C16: a current-hour query that answers from the cache answers with an entry
\* younger than CACHE_DURATION; a current-hour query that finds no such entry
\* answers with a prediction computed at the time of the query, or with none.
C16_CachedEntryIsFresh ==
  /\ \A i \in 1..Len(aiCalls) :
       aiCalls[i].fromCache => aiCalls[i].age >= 0 /\ aiCalls[i].age < CACHE_DURATION
  /\ (aiCalls # <<>> /\ aiCalls[Len(aiCalls)].type = "current"
        /\ aiCalls[Len(aiCalls)].at = now /\ aiCalls[Len(aiCalls)].status = 200)
     => LET last == aiCalls[Len(aiCalls)]
            hour == getHours(last.at)
        IN  /\ hour \in DOMAIN predictionCache
            /\ last.at - predictionCache[hour].timestamp < CACHE_DURATION
            /\ ~last.fromCache => predictionCache[hour].timestamp >= last.at

\* a query answered from the cache at half the time to live, and the next query,
\* at the full time to live, answered with a new prediction
C16_Witness ==
  /\ Len(aiCalls) = 2
  /\ aiCalls[1].fromCache /\ aiCalls[1].age = TickMs
  /\ aiCalls[2].status = 200 /\ ~aiCalls[2].fromCache
  /\ aiCalls[2].at = aiCalls[1].at + TickMs

\* C17: two successful current-hour queries in the same hour and less than
\* CACHE_DURATION apart return the same predicted power.
C17_SamePowerWithinTtl ==
  \A i, j \in 1..Len(aiCalls) :
    (/\ i < j
     /\ aiCalls[i].type = "current" /\ aiCalls[i].status = 200
     /\ aiCalls[j].type = "current" /\ aiCalls[j].status = 200
     /\ getHours(aiCalls[i].at) = getHours(aiCalls[j].at)
     /\ aiCalls[j].at - aiCalls[i].at < CACHE_DURATION)
    => aiCalls[j].predictions[1].predicted_power = aiCalls[i].predictions[1].predicted_power

\* C18: no exception of the engine reaches a handler (no query is answered by a
\* catch block), and an accepted request ends with status 200 and its reading,
\* stored, the device online, the listeners notified; when the engine returned no
\* prediction the reading carries no prediction, accuracy or efficiency delta.
C18_PredictionErrorIsolated ==
  /\ \A i \in 1..Len(aiCalls) : aiCalls[i].error # "Internal server error"
  /\ \A p \in Procs :
       (pc[p] = "done" /\ validateESP32Data(body[p]) = <<>>)
       => /\ response[p].status = 200
          /\ response[p].data = work[p].data
          /\ work[p].data \in Range(sensorData)
          /\ deviceStatus[DEVICE_ID].isOnline
          /\ deviceStatus[DEVICE_ID].lastSeen >= work[p].data.timestamp
          /\ \E i \in 1..Len(fanouts) :
               /\ fanouts[i].id = work[p].data.id
               /\ fanouts[i].invoked = fanouts[i].atStart
          /\ work[p].data.aiPrediction = work[p].aiPrediction
          /\ work[p].aiPrediction = NoPrediction
               => /\ work[p].data.predictionAccuracy = <<>>
                  /\ work[p].data.efficiencyVsPrediction = <<>>

\* a reading has been ingested without a prediction and delivered to the listener,
\* and the day forecast has been answered with "no prediction"
C18_Witness ==
  /\ \E p \in Procs :
       /\ pc[p] = "done" /\ response[p].status = 200
       /\ response[p].data.aiPrediction = NoPrediction
       /\ response[p].data \in Range(sensorData)
       /\ \E i \in 1..Len(fanouts) :
            fanouts[i].id = response[p].data.id /\ fanouts[i].invoked = <<"plain">>
  /\ aiCalls # <<>>
  /\ aiCalls[Len(aiCalls)].type = "day"
  /\ aiCalls[Len(aiCalls)].error = "Failed to generate prediction"

\* C19: a stored reading has battery level 100 when its bus voltage is 4.2 V or
\* more, 0 when it is 3.0 V or less, and a level strictly between 0 and 100 when
\* it is 3.7 V.
C19_BatteryMapping ==
  \A i \in 1..Len(sensorData) :
    /\ sensorData[i].busVoltage >= 420 => sensorData[i].batteryLevel = 100
    /\ sensorData[i].busVoltage <= 300 => sensorData[i].batteryLevel = 0
    /\ sensorData[i].busVoltage = 370
         => sensorData[i].batteryLevel > 0 /\ sensorData[i].batteryLevel < 100

\* C20: a stored reading has solar efficiency 0 when its power is not positive or
\* its light status is not one of usable light ("bright", "good", or the device's
\* "Light available, good for solar energy"), and min(100, power/1000*100)
\* otherwise.
C20_SolarEfficiency ==
  \A i \in 1..Len(sensorData) :
    sensorData[i].solarEfficiency =
      IF /\ sensorData[i].power > 0
         /\ sensorData[i].lightStatus \in
              {"bright", "good", "Light available, good for solar energy"}
      THEN Min(100 * 1000, sensorData[i].power * 10)
      ELSE 0

\* C21: a stored reading has wind efficiency 0 when its wind signal is not positive
\* and min(100, windSignal/20*100) otherwise.
C21_WindEfficiency ==
  \A i \in 1..Len(sensorData) :
    sensorData[i].windEfficiency =
      IF sensorData[i].windCount > 0
      THEN Min(100 * 1000, (sensorData[i].windCount * 1000) \div 2)
      ELSE 0

\* C22: the accuracy is 100 when predicted and actual power are both 0, 0 when the
\* predicted power is 0 and the actual is not, 100 when the actual power equals a
\* positive predicted power, and within [0, 100] for every predicted power >= 0;
\* for the accuracy attached to every stored reading and for the three example
\* pairs (0, 0), (5, 0), (100, 100).
C22_AccuracyCases ==
  /\ \A i \in 1..Len(sensorData) :
       sensorData[i].predictionAccuracy # <<>> =>
         LET actual == sensorData[i].power
             predicted == sensorData[i].aiPrediction.predicted_power
             accuracy == sensorData[i].predictionAccuracy[1]
         IN  /\ (predicted = 0 /\ actual = 0) => accuracy = 100 * 10
             /\ (predicted = 0 /\ actual # 0) => accuracy = 0
             /\ (predicted > 0 /\ actual * 10 = predicted) => accuracy = 100 * 10
             /\ predicted >= 0 => accuracy >= 0 /\ accuracy <= 100 * 10
  /\ calculatePredictionAccuracy(0, 0) = 100 * 10
  /\ calculatePredictionAccuracy(5 * 10, 0) = 0
  /\ calculatePredictionAccuracy(100 * 10, 100 * 100) = 100 * 10
  /\ \A actual \in {-10, 0, 1, 50, 960, 2000}, predicted \in {0, 1, 584, 1590, 10000} :
       /\ calculatePredictionAccuracy(actual, predicted) >= 0
       /\ calculatePredictionAccuracy(actual, predicted) <= 100 * 10

\* a reading of 6.0 mW stored by day with a prediction of 6.00 mW and accuracy 100
C22_Witness ==
  \E i \in 1..Len(sensorData) :
    /\ sensorData[i].predictionAccuracy = <<100 * 10>>
    /\ sensorData[i].aiPrediction.predicted_power > 0
    /\ sensorData[i].power * 10 = sensorData[i].aiPrediction.predicted_power

\* C23: a current-hour query that is not answered from the cache while the store
\* holds readings answers with the prediction computed from the reading at the
\* head of the store, the one appended last.
C23_ComputedFromLatestReading ==
  [][(/\ aiCalls' # aiCalls
      /\ sensorData # <<>>
      /\ aiCalls'[Len(aiCalls')].type = "current"
      /\ aiCalls'[Len(aiCalls')].status = 200
      /\ ~aiCalls'[Len(aiCalls')].fromCache)
     => aiCalls'[Len(aiCalls')].predictions[1] =
          getPredictionFromSensor(sensorData[1], now, historicalData', predictionCache,
                                  500, 500, FALSE).prediction]_vars

\* C24: every prediction is computed with the content of the store as its history:
\* the prediction of an ingestion is the one the engine computes from the readings
\* stored at that moment, and a current-hour query not answered from the cache is
\* answered as by an engine whose history is the latest readings of the store.
C24_HistoryIsStoreContent ==
  [][/\ \A p \in Procs :
          (pc[p] = "parsed" /\ pc'[p] = "awaitPrediction")
          => work'[p].aiPrediction =
               getPredictionFromSensor(PredictionInput(body[p], now), now, sensorData,
                                       predictionCache, 500, 500, FALSE).prediction
     /\ (/\ aiCalls' # aiCalls
         /\ aiCalls'[Len(aiCalls')].type = "current"
         /\ ~aiCalls'[Len(aiCalls')].fromCache)
        => aiCalls'[Len(aiCalls')] =
             [PredictionReply("current",
                              getCurrentHourPrediction(now,
                                                       getLatestSensorData(sensorData, 100),
                                                       predictionCache, 500, 500, FALSE),
                              FALSE, 0) EXCEPT !.at = now]]_vars

\* C25: for every target hour the adjustment over the engine's history is the one
\* computed over the readings whose hour field is within 1 of the target hour (the
\* mean total efficiency over 15, clamped to [0.7, 1.3], or 1.0 without such a
\* reading).
C25_AdjustmentByRecordedHour ==
  \A h \in 0..23 :
    calculateHistoricalAdjustment(historicalData, h) =
      calculateHistoricalAdjustment(
        [i \in 1..Len(historicalData) |->
           [historicalData[i] EXCEPT !.timestamp = historicalData[i].hour * HourMs]], h)

\* C26: a listener notified of two readings is notified of them in the order in
\* which they were appended to the store (the order of their ids).
C26_NotifiedInAppendOrder ==
  \A i, j \in 1..Len(fanouts) :
    (i < j /\ Range(fanouts[i].invoked) \cap Range(fanouts[j].invoked) # {})
    => fanouts[i].id < fanouts[j].id

\* C27: whenever the store is not empty, the tracker holds an entry for the device
\* of the reading at the head of the store, online, with the timestamp, battery
\* level and connection quality of that reading.
C27_StatusMatchesHead ==
  sensorData # <<>> =>
    /\ sensorData[1].deviceId \in DOMAIN deviceStatus
    /\ deviceStatus[sensorData[1].deviceId] =
         [deviceId |-> sensorData[1].deviceId, isOnline |-> TRUE,
          lastSeen |-> sensorData[1].timestamp,
          batteryLevel |-> sensorData[1].batteryLevel,
          connectionQuality |-> sensorData[1].connectionQuality]

\* the store was cleared after the first reading and holds the second one, of a
\* later time, alone
C27_Witness ==
  /\ Len(sensorData) = 1
  /\ sensorData[1].id = 2
  /\ sensorData[1].timestamp > startedAt
  /\ deviceStatus[DEVICE_ID].lastSeen = sensorData[1].timestamp
  /\ deviceStatus[DEVICE_ID].isOnline

C30_ClearKeepsListeners ==
  [][/\ (deviceStatus # <<>> /\ deviceStatus' = <<>>)
        => /\ sensorData' = <<>>
           /\ getDataStatistics(sensorData') =
                [totalReadings |-> 0, avgTemperature |-> 0, avgPower |-> 0,
                 avgEfficiency |-> 0]
           /\ dataListeners' = dataListeners
     /\ (appended = 0 /\ appended' = 1)
        => Len(sensorData') = 1 /\ sensorData'[1].id = nextId
     /\ fanouts' # fanouts
        => /\ fanouts'[Len(fanouts')].invoked = dataListeners
           /\ dataListeners' = dataListeners]_vars

\* two listeners subscribed, a reading stored and delivered, the store cleared, and
\* a second reading delivered to both listeners and alone in the store
C30_Witness ==
  /\ Len(sensorData) = 1 /\ sensorData[1].id = 2 /\ appended = 1
  /\ getDataStatistics(sensorData).totalReadings = 1
  /\ Len(fanouts) = 2
  /\ fanouts[1].id = 1 /\ fanouts[1].invoked = <<"plain", "plain">>
  /\ fanouts[2].id = 2 /\ fanouts[2].invoked = <<"plain", "plain">>

====
